---- MODULE Spec2Model ----
(***************************************************************************)
(* Model of palladiumdb's thread-safe hash map.                            *)
(*                                                                         *)
(*   src/src/collections/map/mod.rs     Map  (routing, constructors)       *)
(*   src/src/collections/map/bucket.rs  Bucket (RwLock + entry list)       *)
(*   src/src/collections/map/utils.rs   LockWrapper (read / write guard)   *)
(*   src/src/lib.rs                     the older copy: Map::new(n),       *)
(*                                      put, get with V::default()         *)
(*                                                                         *)
(* One Map is constructed by one of the constructors; a fixed set of       *)
(* threads then calls put / get / unmap on it.  A call is four or five     *)
(* steps of its thread: the call itself (get_bucket), the lock             *)
(* acquisition, the scan (find_entry_for), for put and unmap the mutation, *)
(* and the return, which drops the guard.                                  *)
(***************************************************************************)
EXTENDS Integers, Sequences, FiniteSets, TLC

\* ------------------------------------------------------------- bounds
NumThreads == 2
MaxKey == 2
MaxVal == 2
MaxBuckets == 2
MaxSeed == 1

\* ---------------------------------------------------- program constants
DEFAULT_BUCKET_COUNT == 19
\* i32::default(), which the lib.rs copy hands to Bucket::get
V_default == 0

Threads == 1..NumThreads
Keys == 1..MaxKey
Values == 1..MaxVal
Seeds == 0..MaxSeed
Counts == 0..MaxBuckets

\* Option<T>
None == <<>>
Some(x) == <<x>>
NoThread == 0

VARIABLES
    status,        \* "none" | "built" | "ctor_panicked"
    ctor,          \* the constructor that was called
    arg,           \* the bucket count it was given (DEFAULT_BUCKET_COUNT for new / with_hasher)
    hash_builder,  \* Map.hash_builder
    buckets,       \* Map.buckets: Seq of entry lists, entry = <<key, value>>
    lock,          \* per bucket, the RwLock: [w |-> thread or NoThread, r |-> readers, poisoned]
    pc,            \* per thread: "idle" "called" "locked" "scanned" "done" "panicked"
    call,          \* per thread: [op, key, val, b] of the call in progress
    found,         \* per thread: the index find_entry_for returned
    ret,           \* per thread: the value get is about to return
    lastMut,       \* history: per key, the last mutation that took effect
    snap,          \* history: per thread in get, what was settled for its key at the call
    lib            \* a Map of the lib.rs copy run beside this one: [hash_builder, buckets, ret]

vars == <<status, ctor, arg, hash_builder, buckets, lock, pc, call, found, ret, lastMut, snap, lib>>

NoCall == [op |-> "none", key |-> 0, val |-> 0, b |-> 0]
FreeLock == [w |-> NoThread, r |-> {}, poisoned |-> FALSE]
\* lastMut[k]: op and val of the mutation, the thread it is by, and whether that
\* call has returned
Never == [op |-> "never", val |-> 0, by |-> NoThread, returned |-> TRUE]
Unknown == [op |-> "unknown", val |-> 0, by |-> NoThread, returned |-> FALSE]
\* no lib.rs Map beside this one
NoLib == [hash_builder |-> 0, buckets |-> <<>>, ret |-> V_default]

\* ------------------------------------------------------------ hashing
\* hasher.finish() for a key under a hash builder: a deterministic function of
\* the pair.  The family is chosen so that, over the seeds, keys both collide
\* and spread inside a table of more than one bucket.
hash(h, k) == (h + 1) * k

\* a panic, where a value was expected
Panic == [ok |-> FALSE]
Ok(x) == [ok |-> TRUE, v |-> x]

\* faulty variant: the index is off by one bucket
get_bucket_off(h, bs, k) ==
    IF Len(bs) = 0 THEN Panic ELSE Ok((hash(h, k) + 1) % Len(bs))

\* Map::get_bucket: the index; the remainder by zero panics on an empty table
get_bucket(h, bs, k) ==
    IF Len(bs) = 0 THEN Panic ELSE Ok(hash(h, k) % Len(bs))

\* ------------------------------------------------------------- Bucket
\* faulty variant: the closure of find never compares the keys
find_entry_for_any(k, data) ==
    IF Len(data) = 0 THEN None ELSE Some(0)

\* Bucket::find_entry_for: the 0-based index of the first entry with the key
find_entry_for(k, data) ==
    LET hits == {i \in 1..Len(data) : data[i][1] = k}
    IN  IF hits = {} THEN None
        ELSE Some((CHOOSE i \in hits : \A j \in hits : i <= j) - 1)

\* faulty variant: the last entry is copied over the removed one, the tail is kept
swap_remove_keep(data, index) ==
    [data EXCEPT ![index + 1] = data[Len(data)]]

\* faulty variant: Vec::remove, which shifts the tail down and keeps the order
swap_remove_shift(data, index) ==
    [j \in 1..(Len(data) - 1) |-> IF j < index + 1 THEN data[j] ELSE data[j + 1]]

\* Vec::swap_remove(index), index in range
swap_remove(data, index) ==
    [j \in 1..(Len(data) - 1) |->
        IF j = index + 1 THEN data[Len(data)] ELSE data[j]]

\* faulty variant: the Some arm leaves the old value
put_arm_keep(data, f, k, v) ==
    IF f = None THEN Ok(Append(data, <<k, v>>)) ELSE Ok(data)

\* faulty variant: the None arm replaces the entry list instead of appending to it
put_arm_clobber(data, f, k, v) ==
    IF f = None THEN Ok(<< <<k, v>> >>)
    ELSE IF f[1] < Len(data)
         THEN Ok([data EXCEPT ![f[1] + 1] = <<data[f[1] + 1][1], v>>])
         ELSE Panic

\* faulty variant: both arms push
put_arm_push(data, f, k, v) == Ok(Append(data, <<k, v>>))

\* the match arms of Bucket::put; get_mut(index).unwrap() panics on None
put_arm(data, f, k, v) ==
    IF f = None THEN Ok(Append(data, <<k, v>>))
    ELSE IF f[1] < Len(data)
         THEN Ok([data EXCEPT ![f[1] + 1] = <<data[f[1] + 1][1], v>>])
         ELSE Panic

\* faulty variant: without a match the last entry is removed
unmap_arm_pop(data, f) ==
    IF f = None
    THEN Ok(IF Len(data) = 0 THEN data ELSE SubSeq(data, 1, Len(data) - 1))
    ELSE IF f[1] < Len(data) THEN Ok(swap_remove(data, f[1]))
    ELSE Panic

\* the body of Bucket::unmap; swap_remove panics out of range
unmap_arm(data, f) ==
    IF f = None THEN Ok(data)
    ELSE IF f[1] < Len(data) THEN Ok(swap_remove(data, f[1]))
    ELSE Panic

\* the match arms of Bucket::get (collections: Option<V>)
get_arm(data, f) ==
    IF f = None THEN None ELSE Some(data[f[1] + 1][2])

\* the match arms of Bucket::get of lib.rs (V, with a default)
lib_get_arm(data, f, default_value) ==
    IF f = None THEN default_value ELSE data[f[1] + 1][2]

\* ------------------------------------------------------------- RwLock
\* faulty variant: read() returns while a writer holds the lock
can_read_racy(l) == TRUE

\* faulty variant: a Mutex in place of the RwLock, one reader at a time
can_read_exclusive(l) == l.w = NoThread /\ l.r = {}

\* RwLock::read() can return: no writer holds the lock
can_read(l) == l.w = NoThread
\* faulty variant: write() returns at once, excluding nobody
can_write_racy(l) == TRUE

\* RwLock::write() can return: nobody holds the lock
can_write(l) == l.w = NoThread /\ l.r = {}

\* faulty variant: one lock for the whole table
lock_ready_global(locks, i, o) ==
    \A j \in 1..Len(locks) :
        IF o = "get" THEN can_read(locks[j]) ELSE can_write(locks[j])

\* each Bucket owns its RwLock: a call waits for the lock of its bucket only
lock_ready(locks, i, o) ==
    IF o = "get" THEN can_read(locks[i]) ELSE can_write(locks[i])

IsLib == ctor = "lib_new"
IsMutation(o) == o \in {"put", "unmap"}
\* what Map::get would return for k in the current table
Lookup(bs, k) ==
    LET b == get_bucket(hash_builder, bs, k).v
    IN  get_arm(bs[b + 1], find_entry_for(k, bs[b + 1]))

\* ------------------------------------------------------------- Init
Init ==
    /\ status = "none"
    /\ ctor = "none"
    /\ arg = 0
    /\ hash_builder = 0
    /\ buckets = <<>>
    /\ lock = <<>>
    /\ pc = [t \in Threads |-> "idle"]
    /\ call = [t \in Threads |-> NoCall]
    /\ found = [t \in Threads |-> None]
    /\ ret = [t \in Threads |-> None]
    /\ lastMut = [k \in Keys |-> Never]
    /\ snap = [t \in Threads |-> Unknown]
    /\ lib = NoLib

threadVars == <<pc, call, found, ret, lastMut, snap, lib>>

\* -------------------------------------------------------- constructors
\* faulty variant: one bucket too many
new_buckets_extra(n) == [i \in 1..(n + 1) |-> <<>>]

\* Vec::with_capacity(n), then resize_with(n, || Bucket::new())
new_buckets(n) == [i \in 1..n |-> <<>>]

\* the struct literal Map { hash_builder, buckets }
Built(c, h, n) ==
    /\ status' = "built"
    /\ ctor' = c
    /\ arg' = n
    /\ hash_builder' = h
    /\ buckets' = new_buckets(n)
    /\ lock' = [i \in 1..Len(new_buckets(n)) |-> FreeLock]
    /\ UNCHANGED threadVars

CtorPanic(c, n) ==
    /\ status' = "ctor_panicked"
    /\ ctor' = c
    /\ arg' = n
    /\ UNCHANGED <<hash_builder, buckets, lock>>
    /\ UNCHANGED threadVars

\* Map::with_hasher_and_bucket_count
with_hasher_and_bucket_count(c, h, n) == Built(c, h, n)

\* Map::with_bucket_count; RandomState::new() is any seed
with_bucket_count(c, n) ==
    IF n = 0 THEN CtorPanic(c, n)
    ELSE \E h \in Seeds : with_hasher_and_bucket_count(c, h, n)

MapNew ==
    /\ status = "none"
    /\ with_bucket_count("new", DEFAULT_BUCKET_COUNT)

MapWithBucketCount ==
    /\ status = "none"
    /\ \E n \in Counts : with_bucket_count("with_bucket_count", n)

MapWithHasherAndBucketCount ==
    /\ status = "none"
    /\ \E h \in Seeds, n \in Counts :
         with_hasher_and_bucket_count("with_hasher_and_bucket_count", h, n)

MapWithHasher ==
    /\ status = "none"
    /\ \E h \in Seeds :
         with_hasher_and_bucket_count("with_hasher", h, DEFAULT_BUCKET_COUNT)

\* Map::new(number_of_buckets) of lib.rs
LibMapNew ==
    /\ status = "none"
    /\ \E h \in Seeds, n \in Counts : Built("lib_new", h, n)

\* ------------------------------------------------------ guard handling
\* LockWrapper::Read(self.data.read().unwrap())
acquire_read(l, t) == [l EXCEPT !.r = @ \cup {t}]
\* LockWrapper::Write(self.data.write().unwrap())
acquire_write(l, t) == [l EXCEPT !.w = t]
\* faulty variant: the read guard is leaked (mem::forget), never released
release_read_leak(l, t) == l
\* the guard goes out of scope at the end of Bucket::get
release_read(l, t) == [l EXCEPT !.r = @ \ {t}]
\* faulty variant: the write guard is leaked, never released
release_write_leak(l, t) == l
\* the guard goes out of scope at the end of Bucket::put / Bucket::unmap
release_write(l, t) == [l EXCEPT !.w = IF @ = t THEN NoThread ELSE @]
\* a write guard dropped while its thread panics poisons the RwLock
poison(l, t) == [release_write(l, t) EXCEPT !.poisoned = TRUE]

InProgress(t) == pc[t] \in {"called", "locked", "scanned", "done"}
Die(t) ==
    /\ pc' = [pc EXCEPT ![t] = "panicked"]
    /\ call' = [call EXCEPT ![t] = NoCall]
    /\ found' = [found EXCEPT ![t] = None]
    /\ ret' = [ret EXCEPT ![t] = None]
    /\ snap' = [snap EXCEPT ![t] = Unknown]

\* ------------------------------------------------------- Map::put/get/unmap
\* self.get_bucket(key), then the delegation to the bucket
Invoke(t, o, k, v) ==
    /\ status = "built"
    /\ pc[t] = "idle"
    /\ LET b == get_bucket(hash_builder, buckets, k)
       IN  IF ~b.ok
           THEN Die(t)
           ELSE /\ pc' = [pc EXCEPT ![t] = "called"]
                /\ call' = [call EXCEPT ![t] = [op |-> o, key |-> k, val |-> v, b |-> b.v]]
                /\ snap' = [snap EXCEPT ![t] =
                              IF o = "get" /\ lastMut[k].returned
                              THEN [lastMut[k] EXCEPT !.by = NoThread]
                              ELSE Unknown]
                /\ UNCHANGED <<found, ret>>
    /\ UNCHANGED <<lib, status, ctor, arg, hash_builder, buckets, lock, lastMut>>

MapPut(t) == \E k \in Keys, v \in Values : Invoke(t, "put", k, v)

MapGet(t) == \E k \in Keys : Invoke(t, "get", k, 0)

\* the lib.rs copy has no Map::unmap
MapUnmap(t) == ~IsLib /\ \E k \in Keys : Invoke(t, "unmap", k, 0)

\* ------------------------------------------------------- Bucket::put/get/unmap
\* self.data.read().unwrap() / self.data.write().unwrap()
Acquire(t) ==
    /\ pc[t] = "called"
    /\ LET i == call[t].b + 1
           l == lock[i]
       IN  /\ lock_ready(lock, i, call[t].op)
           /\ IF l.poisoned
              THEN Die(t) /\ UNCHANGED lock
              ELSE /\ lock' = [lock EXCEPT ![i] =
                                 IF call[t].op = "get" THEN acquire_read(l, t)
                                 ELSE acquire_write(l, t)]
                   /\ pc' = [pc EXCEPT ![t] = "locked"]
                   /\ UNCHANGED <<call, found, ret, snap>>
    /\ UNCHANGED <<lib, status, ctor, arg, hash_builder, buckets, lastMut>>

\* faulty variant: a get moves the entry it found to the front of the list
ScanTouch(t) ==
    /\ pc[t] = "locked"
    /\ LET i == call[t].b + 1
           data == buckets[i]
           f == find_entry_for(call[t].key, data)
       IN  /\ found' = [found EXCEPT ![t] = f]
           /\ IF call[t].op = "get"
              THEN /\ pc' = [pc EXCEPT ![t] = "done"]
                   /\ ret' = [ret EXCEPT ![t] =
                                IF IsLib THEN lib_get_arm(data, f, V_default)
                                ELSE get_arm(data, f)]
                   /\ buckets' = IF f = None THEN buckets
                                 ELSE [buckets EXCEPT ![i] =
                                         [data EXCEPT ![1] = data[f[1] + 1],
                                                      ![f[1] + 1] = data[1]]]
              ELSE /\ pc' = [pc EXCEPT ![t] = "scanned"]
                   /\ UNCHANGED <<ret, buckets>>
    /\ UNCHANGED <<lib, status, ctor, arg, hash_builder, lock, call, lastMut, snap>>

\* Self::find_entry_for(key, &gaurd), and for get the match on its result
Scan(t) ==
    /\ pc[t] = "locked"
    /\ LET data == buckets[call[t].b + 1]
           f == find_entry_for(call[t].key, data)
       IN  /\ found' = [found EXCEPT ![t] = f]
           /\ IF call[t].op = "get"
              THEN /\ pc' = [pc EXCEPT ![t] = "done"]
                   /\ ret' = [ret EXCEPT ![t] =
                                IF IsLib THEN lib_get_arm(data, f, V_default)
                                ELSE get_arm(data, f)]
              ELSE /\ pc' = [pc EXCEPT ![t] = "scanned"]
                   /\ UNCHANGED ret
    /\ UNCHANGED <<lib, status, ctor, arg, hash_builder, buckets, lock, call, lastMut, snap>>

\* the match arms of put, the if-let body of unmap: the mutation takes effect
Apply(t) ==
    /\ pc[t] = "scanned"
    /\ LET i == call[t].b + 1
           k == call[t].key
           data == IF call[t].op = "put"
                   THEN put_arm(buckets[i], found[t], k, call[t].val)
                   ELSE unmap_arm(buckets[i], found[t])
       IN  IF ~data.ok
           THEN /\ Die(t)
                /\ lock' = [lock EXCEPT ![i] = poison(@, t)]
                /\ UNCHANGED <<buckets, lastMut>>
           ELSE /\ buckets' = [buckets EXCEPT ![i] = data.v]
                /\ pc' = [pc EXCEPT ![t] = "done"]
                /\ lastMut' = [lastMut EXCEPT ![k] =
                                 [op |-> call[t].op, val |-> call[t].val,
                                  by |-> t, returned |-> FALSE]]
                /\ snap' = [u \in Threads |->
                              IF u # t /\ call[u].op = "get" /\ call[u].key = k
                              THEN Unknown ELSE snap[u]]
                /\ UNCHANGED <<lock, call, found, ret>>
    /\ UNCHANGED <<lib, status, ctor, arg, hash_builder>>

\* the function returns: the guard is dropped, the caller has the result
Return(t) ==
    /\ pc[t] = "done"
    /\ LET i == call[t].b + 1
           k == call[t].key
       IN  /\ lock' = [lock EXCEPT ![i] =
                         IF call[t].op = "get" THEN release_read(@, t)
                         ELSE release_write(@, t)]
           /\ lastMut' = IF IsMutation(call[t].op) /\ lastMut[k].by = t
                         THEN [lastMut EXCEPT ![k].returned = TRUE]
                         ELSE lastMut
    /\ pc' = [pc EXCEPT ![t] = "idle"]
    /\ call' = [call EXCEPT ![t] = NoCall]
    /\ found' = [found EXCEPT ![t] = None]
    /\ ret' = [ret EXCEPT ![t] = None]
    /\ snap' = [snap EXCEPT ![t] = Unknown]
    /\ UNCHANGED <<lib, status, ctor, arg, hash_builder, buckets>>

Next ==
    \/ MapNew
    \/ MapWithBucketCount
    \/ MapWithHasherAndBucketCount
    \/ MapWithHasher
    \/ LibMapNew
    \/ \E t \in Threads :
         \/ MapPut(t)
         \/ MapGet(t)
         \/ MapUnmap(t)
         \/ Acquire(t)
         \/ Scan(t)
         \/ Apply(t)
         \/ Return(t)

Spec == Init /\ [][Next]_vars

\* ------------------------------------------- one bucket, a wider key set
\* One caller on a Map of one bucket, which every key routes to, over one key
\* more than Keys, so that the bucket grows to three entries.
BucketKeys == 1..(MaxKey + 1)

BucketInit ==
    /\ status = "none"
    /\ ctor = "none"
    /\ arg = 0
    /\ hash_builder = 0
    /\ buckets = <<>>
    /\ lock = <<>>
    /\ pc = [t \in Threads |-> "idle"]
    /\ call = [t \in Threads |-> NoCall]
    /\ found = [t \in Threads |-> None]
    /\ ret = [t \in Threads |-> None]
    /\ lastMut = [k \in BucketKeys |-> Never]
    /\ snap = [t \in Threads |-> Unknown]
    /\ lib = NoLib

BucketNew ==
    /\ status = "none"
    /\ \E h \in Seeds :
         with_hasher_and_bucket_count("with_hasher_and_bucket_count", h, 1)

BucketPut == \E k \in BucketKeys, v \in Values : Invoke(1, "put", k, v)

BucketGet == \E k \in BucketKeys : Invoke(1, "get", k, 0)

BucketUnmap == \E k \in BucketKeys : Invoke(1, "unmap", k, 0)

BucketNext ==
    \/ BucketNew
    \/ BucketPut
    \/ BucketGet
    \/ BucketUnmap
    \/ Acquire(1)
    \/ Scan(1)
    \/ Apply(1)
    \/ Return(1)

BucketSpec == BucketInit /\ [][BucketNext]_vars

\* --------------------------------------- the lib.rs copy beside this one
\* lib.rs, translated on its own: Map::get_bucket
lib_get_bucket(h, bs, k) ==
    IF Len(bs) = 0 THEN Panic ELSE Ok(hash(h, k) % Len(bs))

\* lib.rs Bucket::find_entry_for: the first (index, entry) with an equal key
lib_find_entry_for(k, data) ==
    LET hits == {j \in 1..Len(data) : data[j][1] = k}
    IN  IF hits = {} THEN None
        ELSE LET j == CHOOSE x \in hits : \A y \in hits : x <= y
             IN  Some(<<j - 1, data[j]>>)

\* faulty variant: a new entry goes to the front of the list
lib_put_front(data, k, v) ==
    LET f == lib_find_entry_for(k, data)
    IN  IF f = None THEN <<<<k, v>>>> \o data
        ELSE [data EXCEPT ![f[1][1] + 1] = <<@[1], v>>]

\* lib.rs Bucket::put under its write guard
lib_put(data, k, v) ==
    LET f == lib_find_entry_for(k, data)
    IN  IF f = None THEN Append(data, <<k, v>>)
        ELSE [data EXCEPT ![f[1][1] + 1] = <<@[1], v>>]

\* lib.rs Bucket::get under its read guard
lib_get(data, k, default_value) ==
    LET f == lib_find_entry_for(k, data)
    IN  IF f = None THEN default_value ELSE f[1][2][2]

\* lib.rs Map::new(number_of_buckets)
lib_new_buckets(n) == [i \in 1..n |-> <<>>]

\* values the twin run stores: V::default() is a value like any other
TwinValues == Values \cup {V_default}

\* both Maps are built with the same hash builder and bucket count n > 0
TwinNew ==
    /\ status = "none"
    /\ \E h \in Seeds, n \in Counts \ {0} :
         /\ status' = "built"
         /\ ctor' = "twin"
         /\ arg' = n
         /\ hash_builder' = h
         /\ buckets' = new_buckets(n)
         /\ lock' = [i \in 1..Len(new_buckets(n)) |-> FreeLock]
         /\ lib' = [hash_builder |-> h, buckets |-> lib_new_buckets(n),
                    ret |-> V_default]
    /\ UNCHANGED <<pc, call, found, ret, lastMut, snap>>

\* the same put(k, v) on both, each run to its return
TwinPut(k, v) ==
    /\ status = "built"
    /\ LET b == get_bucket(hash_builder, buckets, k).v + 1
           lb == lib_get_bucket(lib.hash_builder, lib.buckets, k).v + 1
       IN  /\ buckets' = [buckets EXCEPT ![b] =
                            put_arm(@, find_entry_for(k, @), k, v).v]
           /\ lib' = [lib EXCEPT !.buckets[lb] = lib_put(@, k, v)]
    /\ UNCHANGED <<status, ctor, arg, hash_builder, lock, pc, call, found, ret,
                   lastMut, snap>>

\* the same get(k) on both, each run to its return
TwinGet(k) ==
    /\ status = "built"
    /\ LET b == get_bucket(hash_builder, buckets, k).v + 1
           lb == lib_get_bucket(lib.hash_builder, lib.buckets, k).v + 1
       IN  /\ ret' = [ret EXCEPT ![1] =
                        get_arm(buckets[b], find_entry_for(k, buckets[b]))]
           /\ lib' = [lib EXCEPT !.ret = lib_get(lib.buckets[lb], k, V_default)]
    /\ UNCHANGED <<status, ctor, arg, hash_builder, buckets, lock, pc, call,
                   found, lastMut, snap>>

TwinNext ==
    \/ TwinNew
    \/ \E k \in Keys, v \in TwinValues : TwinPut(k, v)
    \/ \E k \in Keys : TwinGet(k)

TwinSpec == Init /\ [][TwinNext]_vars

\* ------------------------------------------------------- fair scheduling
\* A thread inside a call keeps running (weak fairness of its own steps), and
\* the RwLock grants a request that is ready again and again (strong fairness
\* of the acquisition).  Each of these steps moves pc.
Fairness ==
    \A t \in Threads :
        /\ SF_pc(Acquire(t))
        /\ WF_pc(Scan(t))
        /\ WF_pc(Apply(t))
        /\ WF_pc(Return(t))

FairSpec == Init /\ [][Next]_vars /\ Fairness

\* ================================================================ claims
Usable == status = "built" /\ Len(buckets) > 0
HoldsLock(t) == pc[t] \in {"locked", "scanned", "done"}
\* the thread that takes the step, when a thread takes it
Moved(t) == pc'[t] # pc[t]
\* the call a step of thread t belongs to
CallOf(t) == IF pc[t] = "idle" THEN call'[t] ELSE call[t]
KeysIn(data) == {data[j][1] : j \in 1..Len(data)}
Stored(k) == \E i \in 1..Len(buckets) : k \in KeysIn(buckets[i])
\* what get hands back for an Option<V>: the lib.rs copy unwraps with the default
Shown(o) == IF IsLib THEN (IF o = None THEN V_default ELSE o[1]) ELSE o
GetDone(t) == pc[t] = "done" /\ call[t].op = "get"

\* C1: every constructor that takes a bucket count panics on 0: it never
\* returns a Map, and a Map it returns has exactly the count it was given.
C1_ZeroCountFailsFast ==
    ctor \in {"with_bucket_count", "with_hasher_and_bucket_count", "lib_new"} =>
        /\ arg = 0 => status = "ctor_panicked"
        /\ status = "built" => Len(buckets) = arg

\* C2: a get(k) that starts after a put(k, v) has returned, with no other put or
\* unmap of k taking effect since that put, returns Some(v).
C2_PresenceAfterInsert ==
    \A t \in Threads :
        (GetDone(t) /\ snap[t].op = "put") => ret[t] = Shown(Some(snap[t].val))

C2_Witness ==
    \E t \in Threads :
        /\ GetDone(t) /\ snap[t].op = "put" /\ ~IsLib
        /\ ret[t] = Some(snap[t].val)
        /\ lastMut[call[t].key].by # t
        /\ Len(buckets[call[t].b + 1]) > 1

\* C3: the calls on one key are linearizable.  The table read through get's own
\* path (AbsMap) changes only at one step inside each put / unmap, there by the
\* call's sequential effect, and a get takes its result from it at one step
\* inside the get; every other step leaves it alone.
AbsMap == [k \in Keys |-> Lookup(buckets, k)]

LinStep(t) ==
    LET c == call[t]
    IN  IF pc[t] = "scanned" /\ pc'[t] = "done"
        THEN AbsMap' = [AbsMap EXCEPT ![c.key] =
                          IF c.op = "put" THEN Some(c.val) ELSE None]
        ELSE IF pc[t] = "locked" /\ pc'[t] = "done"
        THEN AbsMap' = AbsMap /\ ret'[t] = Shown(AbsMap[c.key])
        ELSE IF pc[t] = "done"
        THEN AbsMap' = AbsMap /\ pc'[t] = "idle"
        ELSE AbsMap' = AbsMap /\ pc'[t] \in {"called", "locked", "scanned"}

C3_Linearizable ==
    [][Usable => \/ \E t \in Threads : Moved(t) /\ LinStep(t)
                 \/ (\A t \in Threads : ~Moved(t)) /\ AbsMap' = AbsMap]_vars

C3_Witness ==
    \E t, u \in Threads :
        /\ t # u
        /\ pc[t] = "done" /\ call[t].op = "put" /\ found[t] # None
        /\ pc[u] = "called" /\ call[u].op \in {"get", "unmap"}
        /\ call[u].key = call[t].key
        /\ lastMut[call[t].key].by = t

\* C4: once every writer has finished, each key holds the value last written
\* to it, and that is what every reader gets, also when the keys of different
\* writers share a bucket.
Quiescent == \A t \in Threads : InProgress(t) => call[t].op = "get"

C4_NoLostUpdate ==
    (Usable /\ Quiescent) =>
        \A k \in Keys :
            lastMut[k].op = "put" =>
                /\ Lookup(buckets, k) = Some(lastMut[k].val)
                /\ \A t \in Threads :
                     (GetDone(t) /\ call[t].key = k) =>
                         ret[t] = Shown(Some(lastMut[k].val))

C4_Witness ==
    /\ Usable /\ Quiescent /\ Len(buckets) > 1
    /\ \E t, u \in Threads :
         /\ t # u /\ GetDone(t) /\ GetDone(u)
         /\ call[t].key # call[u].key
         /\ call[t].b = call[u].b
         /\ lastMut[call[t].key].op = "put" /\ lastMut[call[u].key].op = "put"
         /\ lastMut[call[t].key].by # lastMut[call[u].key].by
         /\ ret[t] = Shown(Some(lastMut[call[t].key].val))
         /\ ret[u] = Shown(Some(lastMut[call[u].key].val))

\* C5: a put on a key that is present overwrites the value in place: the
\* bucket keeps its length, holds exactly one entry for the key, with the new
\* value, and every other entry stays where it was.
C5_Overwrite ==
    [][\A t \in Threads :
         LET c == call[t]
             d == buckets[c.b + 1]
             e == buckets'[c.b + 1]
         IN  (/\ Usable /\ Moved(t) /\ pc[t] = "scanned" /\ c.op = "put"
              /\ c.key \in KeysIn(d))
             => /\ pc'[t] = "done"
                /\ Len(e) = Len(d)
                /\ Cardinality({j \in 1..Len(e) : e[j][1] = c.key}) = 1
                /\ \A j \in 1..Len(d) :
                     e[j] = IF d[j][1] = c.key THEN <<c.key, c.val>> ELSE d[j]
                /\ Lookup(buckets', c.key) = Some(c.val)]_vars

C5_Witness ==
    \E t \in Threads :
        /\ pc[t] = "done" /\ call[t].op = "put" /\ found[t] = Some(1)
        /\ buckets[call[t].b + 1][2] = <<call[t].key, call[t].val>>
        /\ Len(buckets[call[t].b + 1]) = 2

\* C6: after an unmap(k), and until a put(k, _) takes effect, no bucket holds an
\* entry for k and a get(k) returns None.
C6_Removal ==
    \A k \in Keys :
        lastMut[k].op = "unmap" =>
            /\ ~Stored(k)
            /\ \A t \in Threads :
                 (GetDone(t) /\ call[t].key = k) => ret[t] = None

C6_Witness ==
    \E t, u \in Threads :
        /\ GetDone(t) /\ snap[t].op = "unmap" /\ ret[t] = None
        /\ lastMut[call[t].key].by = u /\ u # t
        /\ buckets[call[t].b + 1] # <<>>

\* C7: an unmap of a key that no bucket holds returns normally and leaves every
\* bucket's entry list as it was, at each of its steps.
C7_UnmapAbsentNoop ==
    [][\A t \in Threads :
         (/\ Usable /\ Moved(t) /\ CallOf(t).op = "unmap"
          /\ ~Stored(CallOf(t).key))
         => /\ buckets' = buckets
            /\ pc'[t] # "panicked"]_vars

C7_Witness ==
    \E t \in Threads :
        /\ pc[t] = "done" /\ call[t].op = "unmap" /\ found[t] = None
        /\ buckets[call[t].b + 1] # <<>>

\* C8: no step of a put(k1, _) or unmap(k1) changes what get returns for
\* another key k2, whether or not k2 is in the same bucket.
C8_Independence ==
    [][\A t \in Threads :
         (Usable /\ Moved(t) /\ IsMutation(CallOf(t).op))
         => \A k2 \in Keys \ {CallOf(t).key} :
               Lookup(buckets', k2) = Lookup(buckets, k2)]_vars

C8_Witness ==
    \E t \in Threads :
        /\ pc[t] = "done" /\ call[t].op = "unmap" /\ found[t] = Some(0)
        /\ Len(buckets[call[t].b + 1]) = 1
        /\ buckets[call[t].b + 1][1][1] # call[t].key

\* C9: a call waiting for the lock of its bucket can take it whenever no other
\* thread is inside that bucket (for a get: no writer is), whatever the other
\* threads hold on other buckets.
C9_NoCrossBucketContention ==
    \A t \in Threads :
        (/\ pc[t] = "called"
         /\ \A u \in Threads \ {t} :
              (HoldsLock(u) /\ call[u].b = call[t].b) =>
                  (call[t].op = "get" /\ call[u].op = "get"))
        => ENABLED Acquire(t)

C9_Witness ==
    \E t, u \in Threads :
        /\ pc[t] = "called" /\ IsMutation(call[t].op)
        /\ HoldsLock(u) /\ IsMutation(call[u].op)
        /\ call[u].b # call[t].b
        /\ ENABLED Acquire(t)

\* C10: a Map built with n > 0 buckets has exactly n buckets, all empty until
\* the first mutation takes effect, and get returns None (the default, in the
\* lib.rs copy) for a key that was never put or whose last mutation is an unmap.
C10_FreshMapEmpty ==
    (status = "built" /\ arg > 0) =>
        /\ Len(buckets) = arg
        /\ (\A k \in Keys : lastMut[k].op = "never") =>
               \A i \in 1..Len(buckets) : buckets[i] = <<>>
        /\ \A k \in Keys :
             lastMut[k].op \in {"never", "unmap"} =>
                 /\ Lookup(buckets, k) = None
                 /\ \A t \in Threads :
                      (GetDone(t) /\ call[t].key = k) => ret[t] = Shown(None)

C10_Witness ==
    /\ status = "built" /\ arg = MaxBuckets /\ ~IsLib
    /\ \A k \in Keys : lastMut[k].op = "never"
    /\ \A t \in Threads : GetDone(t) /\ ret[t] = None

\* C11: no bucket ever holds two entries with the same key.
C11_OneEntryPerKey ==
    \A i \in 1..Len(buckets) :
        \A j1, j2 \in 1..Len(buckets[i]) :
            buckets[i][j1][1] = buckets[i][j2][1] => j1 = j2

C11_Witness ==
    \E t, u \in Threads :
        /\ t # u
        /\ pc[t] = "done" /\ call[t].op = "put" /\ found[t] = None
        /\ pc[u] = "called" /\ call[u].op = "put"
        /\ call[u].key = call[t].key /\ call[u].val # call[t].val

\* C12: the bucket count and the hash builder never change once the Map is
\* built; every call in progress is on bucket hash(k) mod bucket_count, every
\* entry is stored in the bucket its key routes to, and the keys get finds are
\* exactly the keys stored.
Route(k) == hash(hash_builder, k) % arg

C12_Placement ==
    /\ Len(buckets) = arg
    /\ \A i \in 1..Len(buckets) :
         \A j \in 1..Len(buckets[i]) : Route(buckets[i][j][1]) = i - 1
    /\ \A t \in Threads : InProgress(t) => call[t].b = Route(call[t].key)
    /\ {k \in Keys : Lookup(buckets, k) # None}
         = UNION {KeysIn(buckets[i]) : i \in 1..Len(buckets)}

C12_RoutingStable ==
    [][(status' = "built" /\ arg' > 0) =>
          /\ C12_Placement'
          /\ status = "built" =>
                /\ Len(buckets') = Len(buckets)
                /\ hash_builder' = hash_builder
                /\ arg' = arg]_vars

C12_Witness ==
    /\ Len(buckets) = 2
    /\ buckets[1] # <<>> /\ buckets[2] # <<>>
    /\ \E t \in Threads : GetDone(t) /\ ret[t] # Shown(None)

\* C13: a thread inside put or unmap is alone in its bucket and readers are
\* inside only with no writer; an entry list changes only by a step of the
\* thread that holds its write lock, and is scanned only under its lock.
C13_Excl ==
    \A t \in Threads :
        HoldsLock(t) =>
            LET l == lock[call[t].b + 1]
            IN  IF IsMutation(call[t].op)
                THEN /\ l.w = t /\ l.r = {}
                     /\ \A u \in Threads \ {t} :
                          ~(HoldsLock(u) /\ call[u].b = call[t].b)
                ELSE t \in l.r /\ l.w = NoThread

C13_Exclusion ==
    [][status' = "built" =>
          /\ C13_Excl'
          /\ \A i \in 1..Len(buckets) :
               buckets'[i] # buckets[i] =>
                   \E t \in Threads :
                       Moved(t) /\ lock[i].w = t /\ call[t].b = i - 1
          /\ \A t \in Threads :
               (Moved(t) /\ pc[t] = "locked") =>
                   LET l == lock[call[t].b + 1]
                   IN  l.w = t \/ t \in l.r]_vars

C13_Witness ==
    \E t, u \in Threads :
        /\ pc[t] = "scanned" /\ call[t].op = "unmap" /\ found[t] # None
        /\ pc[u] = "called" /\ call[u].op = "get"
        /\ call[u].b = call[t].b

\* C14: a thread holds the lock of the bucket of its call, and only that one,
\* from the acquisition to the return, and none otherwise; with no call in
\* progress every lock is free.
Held(t) == {i \in 1..Len(lock) : lock[i].w = t \/ t \in lock[i].r}

C14_OneLock ==
    status = "built" =>
        /\ \A t \in Threads :
             Held(t) = IF HoldsLock(t) THEN {call[t].b + 1} ELSE {}
        /\ (\A t \in Threads : ~InProgress(t)) =>
               \A i \in 1..Len(lock) : lock[i].w = NoThread /\ lock[i].r = {}

C14_Witness ==
    /\ Usable /\ Len(buckets) > 1
    /\ \A t \in Threads : pc[t] = "idle"
    /\ \E k1, k2 \in Keys :
         /\ lastMut[k1].op = "put" /\ lastMut[k2].op = "unmap"
         /\ lastMut[k1].by # lastMut[k2].by
    /\ \A i \in 1..Len(lock) : lock[i] = FreeLock

\* C15: a get waiting for its bucket takes the read lock whenever the other
\* calls in progress on that bucket are all gets.
C15_ParallelGets ==
    \A t \in Threads :
        (/\ pc[t] = "called" /\ call[t].op = "get"
         /\ \A u \in Threads \ {t} :
              (InProgress(u) /\ call[u].b = call[t].b) => call[u].op = "get")
        => ENABLED Acquire(t)

C15_Witness ==
    \E t, u \in Threads :
        /\ t # u
        /\ pc[t] = "locked" /\ call[t].op = "get"
        /\ GetDone(u) /\ call[u].b = call[t].b
        /\ lock[call[t].b + 1].r = {t, u}

\* C16: no step of a get changes the entry list of any bucket.
C16_GetNoSideEffect ==
    [][\A t \in Threads :
         (status = "built" /\ Moved(t) /\ CallOf(t).op = "get")
         => buckets' = buckets]_vars

C16_Witness ==
    \E t \in Threads :
        /\ GetDone(t) /\ found[t] = Some(1)
        /\ Len(buckets[call[t].b + 1]) = 2
        /\ ret[t] = Shown(Some(buckets[call[t].b + 1][2][2]))

\* C19: no put, get or unmap panics on a Map that a constructor returned.
C19_NoPanic ==
    \A t \in Threads : pc[t] # "panicked"

\* C17: unmap of a present key removes the one entry with that key by
\* swap-remove: the list is one shorter, the former last entry stands at the
\* removed index, every other entry keeps its place, and the entries of the
\* other keys are the same as before.
C17_SwapRemove ==
    [][\A t \in Threads :
         (/\ pc[t] = "scanned" /\ pc'[t] = "done"
          /\ call[t].op = "unmap" /\ found[t] # None)
         => LET i == call[t].b + 1
                d == buckets[i]
                e == buckets'[i]
                idx == found[t][1] + 1
                k == call[t].key
            IN  /\ d[idx][1] = k
                /\ Len(e) = Len(d) - 1
                /\ \A j \in 1..Len(e) :
                     e[j] = IF j = idx THEN d[Len(d)] ELSE d[j]
                /\ k \notin KeysIn(e)
                /\ \A x \in BucketKeys \ {k} :
                     Cardinality({j \in 1..Len(e) : e[j][1] = x})
                       = Cardinality({j \in 1..Len(d) : d[j][1] = x})
                /\ {e[j] : j \in 1..Len(e)}
                     = {d[j] : j \in 1..Len(d)} \ {d[idx]}
                /\ \A o \in 1..Len(buckets) : o # i => buckets'[o] = buckets[o]]_vars

C17_Witness ==
    \E t \in Threads :
        /\ pc[t] = "done" /\ call[t].op = "unmap" /\ found[t] = Some(0)
        /\ lastMut[call[t].key].op = "unmap" /\ lastMut[call[t].key].by = t
        /\ Len(buckets[call[t].b + 1]) = 2
        /\ buckets[call[t].b + 1][1][1] > buckets[call[t].b + 1][2][1]

\* C18: whenever a call is in progress some thread inside a call can take a
\* step, and under fair scheduling every call in progress returns.
C18_Step == \E t \in Threads : Acquire(t) \/ Scan(t) \/ Apply(t) \/ Return(t)

C18_Completion ==
    /\ []((\E t \in Threads : InProgress(t)) => ENABLED C18_Step)
    /\ \A t \in Threads : InProgress(t) ~> (pc[t] = "idle")

C18_Witness ==
    \E t, u \in Threads :
        /\ pc[t] = "called" /\ call[t].op = "put"
        /\ pc[u] = "done" /\ call[u].op = "put"
        /\ call[u].b = call[t].b
        /\ ~ENABLED Acquire(t)

\* C20: built with the same hash function and the same bucket count n > 0 and
\* given the same puts and gets, the lib.rs Map holds the same entries in the
\* same buckets in the same order as the collections Map, and its get returns
\* what the collections get returns with None replaced by V::default().
C20_OrDefault(o) == IF o = None THEN V_default ELSE o[1]

C20_TwinEquivalent ==
    status = "built" =>
        /\ lib.buckets = buckets
        /\ lib.ret = C20_OrDefault(ret[1])
        /\ \A k \in Keys :
             LET b == get_bucket(hash_builder, buckets, k).v + 1
                 lb == lib_get_bucket(lib.hash_builder, lib.buckets, k).v + 1
             IN  lib_get(lib.buckets[lb], k, V_default)
                   = C20_OrDefault(get_arm(buckets[b],
                                           find_entry_for(k, buckets[b])))

C20_Witness ==
    /\ status = "built"
    /\ \E i \in 1..Len(buckets) :
         /\ Len(buckets[i]) = 2
         /\ ret[1] = Some(buckets[i][2][2])
         /\ lib.ret = lib.buckets[i][2][2]
         /\ lib.ret # V_default
    /\ \E k \in Keys : Lookup(buckets, k) = Some(V_default)

====
